---------------------------- MODULE Spec2Model ----------------------------
(***************************************************************************)
(* A model of site-builder/src/util.rs: the transaction submitter          *)
(* (sign_and_send_ptb), the pagination aggregator (handle_pagination /     *)
(* handle_pagination_with_cursor) and the base-36 converter                *)
(* (id_to_base36).                                                         *)
(*                                                                         *)
(* Each component has its own variables and its own specification          *)
(* (SpecPtb, SpecPage, SpecB36); the variables of the other components     *)
(* stay at their initial value.  An `.await` is a suspension point: the    *)
(* request and the reply of a remote call are two steps.                   *)
(***************************************************************************)
EXTENDS Integers, Sequences, FiniteSets, TLC

VARIABLES
    \* ---- sign_and_send_ptb (util.rs 22-63)
    ptb_pc,         \* "start" | "price_wait" | "sign" | "submit_wait" | "done"
    address,        \* argument `address`
    gas_budget,     \* argument `gas_budget`
    gas_price,      \* Option: local `gas_price`
    priceCalls,     \* number of get_reference_gas_price requests issued
    priceLog,       \* sequence of the answers the price queries got
    signLog,        \* sequence of the outcomes of the sign_secure calls made
    submitted,      \* sequence of the transactions handed to execute_transaction_block
    returned,       \* Option: what the remote service answered to the submission
    ptb_result,     \* Option: the Result the call returned
    \* ---- handle_pagination_with_cursor (util.rs 98-127)
    hp_pc,          \* "start" | "loop" | "fetch_wait" | "done"
    cont,           \* local `cont`
    cursor,         \* Option: local `cursor`
    iterators,      \* local `iterators`: sequence of the pages' item sequences
    queries,        \* sequence of the cursors the closure was invoked with
    served,         \* sequence of the answers the closure gave
    hp_result,      \* Option: the Result the call returned
    \* ---- id_to_base36 (util.rs 130-158)
    b36_pc,         \* "for" | "while" | "finish" | "done" | "panic"
    source,         \* local `source`: the identifier's bytes, most significant first
    encoding,       \* local `encoding`: function 0..size-1 -> digit
    high,           \* local `high`
    it,             \* local `it`
    carry,          \* local `carry`
    di,             \* position of the `for digit in &source` loop, 1..Len(source)+1
    b36_result,     \* Option: the Result the call returned
    \* ---- call_arg_from_shared_object_id (util.rs 74-96)
    ca_pc,          \* "start" | "lookup_wait" | "done"
    ca_id,          \* argument `id`
    ca_mutable,     \* argument `mutable`
    ca_lookups,     \* sequence of the get_object_with_options requests issued
    ca_answer,      \* Option: what the remote service answered to the lookup
    ca_result,      \* Option: the Result the call returned
    \* ---- get_site_id_from_response (util.rs 161-172)
    sid_pc,         \* "start" | "done" | "panic"
    sid_address,    \* argument `address`
    sid_created,    \* effects.created(): sequence of owned object references
    sid_result,     \* Option: the Result the call returned
    \* ---- the caller of handle_pagination (util.rs 174-185)
    yielded,        \* the items taken from the returned iterator so far
    inspected,      \* number of field names as_str() was applied to
    dfn_result      \* Option: the Result get_dynamic_field_names returned

ptb_vars == <<ptb_pc, address, gas_budget, gas_price, priceCalls, priceLog,
              signLog, submitted, returned, ptb_result>>
hp_vars  == <<hp_pc, cont, cursor, iterators, queries, served, hp_result>>
b36_vars == <<b36_pc, source, encoding, high, it, carry, di, b36_result>>
ca_vars  == <<ca_pc, ca_id, ca_mutable, ca_lookups, ca_answer, ca_result>>
sid_vars == <<sid_pc, sid_address, sid_created, sid_result>>
use_vars == <<yielded, inspected, dfn_result>>
other_vars == <<ca_vars, sid_vars, use_vars>>
vars     == <<ptb_vars, hp_vars, b36_vars, other_vars>>

(***************************************************************************)
(* Option<T> and Result<T, E>.                                             *)
(***************************************************************************)
None == <<>>
Some(x) == <<x>>
Option(S) == {None} \cup {Some(x) : x \in S}
IsSome(o) == Len(o) = 1
Unwrap(o) == o[1]

Ok(v) == [ok |-> TRUE, value |-> v]
Err(e) == [ok |-> FALSE, error |-> e]
IsOk(r) == r.ok
IsErr(r) == ~r.ok

\* An anyhow! error made from a message, and an error of another type that
\* the ? operator converts (the original error stays the payload).
Anyhow(text) == [type |-> "anyhow", msg |-> text]
SdkError(text) == [type |-> "sui_sdk::error::Error", msg |-> text]
SignError(text) == [type |-> "signature::Error", msg |-> text]

(***************************************************************************)
(* sign_and_send_ptb                                                       *)
(***************************************************************************)
Addresses == {"0xa11ce", "0xb0b"}
GasBudgets == {500000}
GasPrices == {750, 1000}
GasCoin == "gas_coin"
Ptb == "programmable_transaction"
\* Messages with which the remote service reports a failed execution.
FailureMessages == {"insufficient funds", "MoveAbort"}
\* Transport/protocol errors of a remote call.
TransportErrors == {SdkError("RPC call failed"), SdkError("malformed response")}
SigningErrors == {SignError("no key for address")}
Digests == {"digestA", "digestB"}

\* SuiExecutionStatus
Success == [kind |-> "Success"]
Failure(m) == [kind |-> "Failure", error |-> m]
ExecutionStatuses == {Success} \cup {Failure(m) : m \in FailureMessages}
\* SuiTransactionBlockEffects: status() reads the status field.
Effects == [status : ExecutionStatuses]
\* SuiTransactionBlockResponse, the fields the function reads plus the digest.
Responses == [digest : Digests,
              confirmed_local_execution : Option(BOOLEAN),
              effects : Option(Effects)]

\* TransactionData::new_programmable(address, vec![gas_coin], pt, gas_budget, gas_price)
NewProgrammable(sender, payment, pt, budget, price) ==
    [sender |-> sender, gas_payment |-> payment, pt |-> pt,
     gas_budget |-> budget, gas_price |-> price]
\* Transaction::from_data(transaction, vec![signature])
FromData(data, sigs) == [data |-> data, tx_signatures |-> sigs]

NotConfirmedText == "Transaction execution was not confirmed"
NoEffectsText == "No transaction effects in response"
ExecutionErrorPrefix == "Error in transaction execution: "

\* Faulty variant of EnsureConfirmed: only an explicit `false` is refused.
EnsureConfirmedLax(response) == response.confirmed_local_execution # Some(FALSE)

\* ensure!(response.confirmed_local_execution == Some(true), ...)
EnsureConfirmed(response) == response.confirmed_local_execution = Some(TRUE)

\* Faulty variant of MatchStatus: a response without effects passes.
MatchStatusNoEffectsOk(response) ==
    IF ~IsSome(response.effects)
    THEN Ok(response)
    ELSE LET status == Unwrap(response.effects).status
         IN  IF status.kind = "Success"
             THEN Ok(response)
             ELSE Err(Anyhow(ExecutionErrorPrefix \o status.error))

\* Faulty variant of MatchStatus: the arms of the match are swapped.
MatchStatusSwapped(response) ==
    IF ~IsSome(response.effects)
    THEN Err(Anyhow(NoEffectsText))
    ELSE LET status == Unwrap(response.effects).status
         IN  IF status.kind = "Failure"
             THEN Ok(response)
             ELSE Err(Anyhow(ExecutionErrorPrefix))

\* Faulty variant of MatchStatus: the failure arm drops the reported message.
MatchStatusNoMessage(response) ==
    IF ~IsSome(response.effects)
    THEN Err(Anyhow(NoEffectsText))
    ELSE LET status == Unwrap(response.effects).status
         IN  IF status.kind = "Success"
             THEN Ok(response)
             ELSE Err(Anyhow(ExecutionErrorPrefix))

\* match response.effects.as_ref().ok_or_else(..)?.status() { .. }
MatchStatus(response) ==
    IF ~IsSome(response.effects)
    THEN Err(Anyhow(NoEffectsText))
    ELSE LET status == Unwrap(response.effects).status
         IN  IF status.kind = "Success"
             THEN Ok(response)
             ELSE Err(Anyhow(ExecutionErrorPrefix \o status.error))

\* Lines 48-62: what the function returns once the submission has answered
\* with `response`.
CheckOutcome(response) ==
    IF ~EnsureConfirmed(response)
    THEN Err(Anyhow(NotConfirmedText))
    ELSE MatchStatus(response)

PtbInit ==
    /\ ptb_pc = "start"
    /\ address \in Addresses
    /\ gas_budget \in GasBudgets
    /\ gas_price = None
    /\ priceCalls = 0
    /\ priceLog = <<>>
    /\ signLog = <<>>
    /\ submitted = <<>>
    /\ returned = None
    /\ ptb_result = None

PtbIdle ==
    /\ ptb_pc = "idle"
    /\ address = "0xa11ce"
    /\ gas_budget = 500000
    /\ gas_price = None
    /\ priceCalls = 0
    /\ priceLog = <<>>
    /\ signLog = <<>>
    /\ submitted = <<>>
    /\ returned = None
    /\ ptb_result = None

\* Line 30: client.read_api().get_reference_gas_price() is issued.
PtbRequestPrice ==
    /\ ptb_pc = "start"
    /\ ptb_pc' = "price_wait"
    /\ priceCalls' = priceCalls + 1
    /\ UNCHANGED <<address, gas_budget, gas_price, priceLog, signLog, submitted,
                   returned, ptb_result>>
    /\ UNCHANGED <<hp_vars, b36_vars, other_vars>>

\* Faulty variant of PriceAnswered: a failed price query falls back to a
\* price of its own and the call goes on.
PriceAnsweredFallback(r) ==
    /\ gas_price' = Some(IF IsErr(r) THEN 1000 ELSE r.value)
    /\ ptb_pc' = "sign"
    /\ UNCHANGED ptb_result

\* What the function does with the answer `r` of the price query (.await?).
PriceAnswered(r) ==
    IF IsErr(r)
    THEN /\ ptb_result' = Some(Err(r.error))
         /\ ptb_pc' = "done"
         /\ UNCHANGED gas_price
    ELSE /\ gas_price' = Some(r.value)
         /\ ptb_pc' = "sign"
         /\ UNCHANGED ptb_result

\* Line 30: the price query answers.
PtbPriceReply ==
    /\ ptb_pc = "price_wait"
    /\ \E r \in {Ok(p) : p \in GasPrices} \cup {Err(e) : e \in TransportErrors} :
          /\ priceLog' = Append(priceLog, r)
          /\ PriceAnswered(r)
    /\ UNCHANGED <<address, gas_budget, priceCalls, signLog, submitted, returned>>
    /\ UNCHANGED <<hp_vars, b36_vars, other_vars>>

\* What the function does with the outcome `s` of sign_secure (lines 39-47):
\* on a signature the envelope is submitted.
Signed(transaction, s) ==
    IF IsErr(s)
    THEN /\ ptb_result' = Some(Err(s.error))
         /\ ptb_pc' = "done"
         /\ UNCHANGED submitted
    ELSE /\ submitted' = Append(submitted, FromData(transaction, <<s.value>>))
         /\ ptb_pc' = "submit_wait"
         /\ UNCHANGED ptb_result

\* Lines 32-46: assemble, sign, and issue execute_transaction_block.
PtbSignAndSubmit ==
    /\ ptb_pc = "sign"
    /\ LET transaction == NewProgrammable(address, <<GasCoin>>, Ptb, gas_budget,
                                          Unwrap(gas_price))
       IN  \E s \in {Ok([signer |-> address, intent |-> "sui_transaction",
                         over |-> transaction])}
                    \cup {Err(e) : e \in SigningErrors} :
              /\ signLog' = Append(signLog, s)
              /\ Signed(transaction, s)
    /\ UNCHANGED <<address, gas_budget, gas_price, priceCalls, priceLog, returned>>
    /\ UNCHANGED <<hp_vars, b36_vars, other_vars>>

\* Faulty variant of SubmissionAnswered: a submission that failed in transport is
\* sent again.
SubmissionRetried(r) ==
    IF IsErr(r) /\ Len(submitted) < 2
    THEN /\ submitted' = Append(submitted, submitted[1])
         /\ ptb_pc' = "submit_wait"
         /\ UNCHANGED ptb_result
    ELSE /\ ptb_result' = Some(IF IsErr(r) THEN Err(r.error) ELSE CheckOutcome(r.value))
         /\ ptb_pc' = "done"
         /\ UNCHANGED submitted

\* What the function does with the answer `r` of the submission (lines 47-62).
SubmissionAnswered(r) ==
    /\ ptb_result' = Some(IF IsErr(r) THEN Err(r.error) ELSE CheckOutcome(r.value))
    /\ ptb_pc' = "done"
    /\ UNCHANGED submitted

\* Line 47: the submission answers; lines 48-62 run to the return.
PtbSubmitReply ==
    /\ ptb_pc = "submit_wait"
    /\ \E r \in {Ok(resp) : resp \in Responses} \cup {Err(e) : e \in TransportErrors} :
          /\ returned' = Some(r)
          /\ SubmissionAnswered(r)
    /\ UNCHANGED <<address, gas_budget, gas_price, priceCalls, priceLog, signLog>>
    /\ UNCHANGED <<hp_vars, b36_vars, other_vars>>

NextPtb ==
    \/ PtbRequestPrice
    \/ PtbPriceReply
    \/ PtbSignAndSubmit
    \/ PtbSubmitReply

(***************************************************************************)
(* handle_pagination / handle_pagination_with_cursor                       *)
(***************************************************************************)
\* The most pages one query session serves: the page with this index
\* declares no further pages (or its fetch fails).
MaxPages == 3
\* The most items on one page.
MaxPageLen == 2
\* Continuation tokens of the remote service.
Cursors == {"c1", "c2"}

RECURSIVE Flatten(_)
\* iterators.into_iter().flatten(): the items the returned iterator yields.
Flatten(its) == IF its = <<>> THEN <<>> ELSE Head(its) \o Flatten(Tail(its))

\* The items of the k-th page served when it holds n items.  The function is
\* generic in T and never reads an item, so every item is named by where the
\* service put it.
PageData(k, n) == [i \in 1..n |-> <<k, i>>]

\* Page<T, C>
Pages(k) ==
    {[data |-> PageData(k, n), has_next_page |-> h, next_cursor |-> c] :
        n \in 0..MaxPageLen,
        h \in IF k < MaxPages THEN BOOLEAN ELSE {FALSE},
        c \in Option(Cursors)}

\* What the closure may answer to its k-th invocation.
PageAnswers(k) == {Ok(p) : p \in Pages(k)} \cup {Err(e) : e \in TransportErrors}

HpInit ==
    /\ hp_pc = "start"
    /\ cont = FALSE
    /\ cursor = None
    /\ iterators = <<>>
    /\ queries = <<>>
    /\ served = <<>>
    /\ hp_result = None

HpIdle ==
    /\ hp_pc = "idle"
    /\ cont = FALSE
    /\ cursor = None
    /\ iterators = <<>>
    /\ queries = <<>>
    /\ served = <<>>
    /\ hp_result = None

\* Lines 106, 118-119: handle_pagination enters handle_pagination_with_cursor
\* with no cursor.
HandlePagination ==
    /\ hp_pc = "start"
    /\ cursor' = None
    /\ cont' = TRUE
    /\ iterators' = <<>>
    /\ hp_pc' = "loop"
    /\ UNCHANGED <<queries, served, hp_result>>
    /\ UNCHANGED <<ptb_vars, b36_vars, other_vars>>

\* Faulty variant of HpFetch: the next page is asked for while the answer to
\* the previous request is still awaited.
HpFetchPipelined ==
    /\ hp_pc \in {"loop", "fetch_wait"}
    /\ cont
    /\ queries' = Append(queries, cursor)
    /\ hp_pc' = "fetch_wait"
    /\ UNCHANGED <<cont, cursor, iterators, served, hp_result>>
    /\ UNCHANGED <<ptb_vars, b36_vars, other_vars>>

\* Lines 120-121: `while cont`: the closure is invoked with the cursor.
HpFetch ==
    /\ hp_pc = "loop"
    /\ cont
    /\ queries' = Append(queries, cursor)
    /\ hp_pc' = "fetch_wait"
    /\ UNCHANGED <<cont, cursor, iterators, served, hp_result>>
    /\ UNCHANGED <<ptb_vars, b36_vars, other_vars>>

\* Faulty variant of PageAnswered: a page without a cursor leaves the
\* cursor of the page before it in place.
PageAnsweredKeepsCursor(r) ==
    IF IsErr(r)
    THEN /\ hp_result' = Some(Err(r.error))
         /\ hp_pc' = "done"
         /\ UNCHANGED <<cont, cursor, iterators>>
    ELSE /\ cont' = r.value.has_next_page
         /\ cursor' = IF IsSome(r.value.next_cursor) THEN r.value.next_cursor
                       ELSE cursor
         /\ iterators' = Append(iterators, r.value.data)
         /\ hp_pc' = "loop"
         /\ UNCHANGED hp_result

\* Faulty variant of PageAnswered: a page is put in front of the earlier ones.
PageAnsweredPrepends(r) ==
    IF IsErr(r)
    THEN /\ hp_result' = Some(Err(r.error))
         /\ hp_pc' = "done"
         /\ UNCHANGED <<cont, cursor, iterators>>
    ELSE /\ cont' = r.value.has_next_page
         /\ cursor' = r.value.next_cursor
         /\ iterators' = <<r.value.data>> \o iterators
         /\ hp_pc' = "loop"
         /\ UNCHANGED hp_result

\* Faulty variant of PageAnswered: a failed fetch ends the loop and the pages
\* fetched so far are returned.
PageAnsweredPartial(r) ==
    IF IsErr(r)
    THEN /\ hp_result' = Some(Ok(Flatten(iterators)))
         /\ hp_pc' = "done"
         /\ UNCHANGED <<cont, cursor, iterators>>
    ELSE /\ cont' = r.value.has_next_page
         /\ cursor' = r.value.next_cursor
         /\ iterators' = Append(iterators, r.value.data)
         /\ hp_pc' = "loop"
         /\ UNCHANGED hp_result

\* Faulty variant of PageAnswered: an empty page ends the loop.
PageAnsweredStopsOnEmpty(r) ==
    IF IsErr(r)
    THEN /\ hp_result' = Some(Err(r.error))
         /\ hp_pc' = "done"
         /\ UNCHANGED <<cont, cursor, iterators>>
    ELSE /\ cont' = (r.value.has_next_page /\ r.value.data # <<>>)
         /\ cursor' = r.value.next_cursor
         /\ iterators' = Append(iterators, r.value.data)
         /\ hp_pc' = "loop"
         /\ UNCHANGED hp_result

\* Lines 121-124: what the loop body does with the answer `r` of the closure.
PageAnswered(r) ==
    IF IsErr(r)
    THEN /\ hp_result' = Some(Err(r.error))
         /\ hp_pc' = "done"
         /\ UNCHANGED <<cont, cursor, iterators>>
    ELSE /\ cont' = r.value.has_next_page
         /\ cursor' = r.value.next_cursor
         /\ iterators' = Append(iterators, r.value.data)
         /\ hp_pc' = "loop"
         /\ UNCHANGED hp_result

\* Line 121: the closure's future resolves.
HpReply ==
    /\ hp_pc = "fetch_wait"
    /\ \E r \in PageAnswers(Len(served) + 1) :
          /\ served' = Append(served, r)
          /\ PageAnswered(r)
    /\ UNCHANGED queries
    /\ UNCHANGED <<ptb_vars, b36_vars, other_vars>>

\* Line 126: the loop has ended.
HpReturn ==
    /\ hp_pc = "loop"
    /\ ~cont
    /\ hp_result' = Some(Ok(Flatten(iterators)))
    /\ hp_pc' = "done"
    /\ UNCHANGED <<cont, cursor, iterators, queries, served>>
    /\ UNCHANGED <<ptb_vars, b36_vars, other_vars>>

NextPage ==
    \/ HandlePagination
    \/ HpFetch
    \/ HpReply
    \/ HpReturn

\* Faulty variant of HpNext: the iterator asks the closure again when an item
\* is taken from it.
HpNextLazy ==
    /\ hp_pc = "done"
    /\ IsOk(Unwrap(hp_result))
    /\ Len(yielded) < Len(Unwrap(hp_result).value)
    /\ yielded' = Append(yielded, Unwrap(hp_result).value[Len(yielded) + 1])
    /\ queries' = Append(queries, cursor)
    /\ UNCHANGED <<hp_pc, cont, cursor, iterators, served, hp_result>>
    /\ UNCHANGED <<inspected, dfn_result>>
    /\ UNCHANGED <<ptb_vars, b36_vars, ca_vars, sid_vars>>

\* The caller takes the next item from the iterator line 126 returned
\* (iterators.into_iter().flatten()); it may stop taking at any point.
HpNext ==
    /\ hp_pc = "done"
    /\ IsOk(Unwrap(hp_result))
    /\ Len(yielded) < Len(Unwrap(hp_result).value)
    /\ yielded' = Append(yielded, Unwrap(hp_result).value[Len(yielded) + 1])
    /\ UNCHANGED hp_vars
    /\ UNCHANGED <<inspected, dfn_result>>
    /\ UNCHANGED <<ptb_vars, b36_vars, ca_vars, sid_vars>>

NextPageConsumed ==
    \/ HandlePagination
    \/ HpFetch
    \/ HpReply
    \/ HpReturn
    \/ HpNext

(***************************************************************************)
(* get_dynamic_field_names                                                 *)
(***************************************************************************)
\* serde_json::Value, as far as as_str() tells values apart
JsonString(s) == [json |-> "String", str |-> s]
JsonNumber(n) == [json |-> "Number", number |-> n]

\* Line 179: Value::as_str()
AsStr(v) == IF v.json = "String" THEN Some(v.str) ELSE None

\* The i-th DynamicFieldInfo of the k-th page; its name is text or a number.
FieldInfo(k, i, json) ==
    [name |-> [value |-> IF json = "String"
                         THEN JsonString("field" \o ToString(k) \o "." \o ToString(i))
                         ELSE JsonNumber(10 * k + i)]]

\* The pages get_dynamic_fields may serve as the k-th: the cursor names the
\* last field of the page.
FieldPages(k, n) ==
    {[data |-> [i \in 1..n |-> FieldInfo(k, i, kinds[i])],
      has_next_page |-> h,
      next_cursor |-> IF n = 0 THEN None ELSE Some("c" \o ToString(k))] :
        kinds \in [1..n -> {"String", "Number"}],
        h \in IF k < MaxPages THEN BOOLEAN ELSE {FALSE}}

DynamicFieldPages(k) == UNION {FieldPages(k, n) : n \in 0..MaxPageLen}

BadNameText == "Could not read the name of the dynamic field"

RECURSIVE CollectNamesSkipping(_)
\* Faulty variant of CollectNames: a name that is not text is left out.
CollectNamesSkipping(items) ==
    IF items = <<>> THEN [result |-> Ok(<<>>), inspected |-> 0]
    ELSE LET s == AsStr(Head(items).name.value)
             rest == CollectNamesSkipping(Tail(items))
         IN  [result |-> Ok((IF IsSome(s) THEN <<Unwrap(s)>> ELSE <<>>)
                                \o rest.result.value),
              inspected |-> 1 + rest.inspected]

RECURSIVE CollectNames(_)
\* Lines 177-184: .map(..).collect::<Result<Vec<String>>>() stops at the first
\* Err the map yields; `inspected` counts the items the map was applied to.
CollectNames(items) ==
    IF items = <<>> THEN [result |-> Ok(<<>>), inspected |-> 0]
    ELSE LET s == AsStr(Head(items).name.value)
         IN  IF IsSome(s)
             THEN LET rest == CollectNames(Tail(items))
                  IN  [result |-> IF IsOk(rest.result)
                                  THEN Ok(<<Unwrap(s)>> \o rest.result.value)
                                  ELSE rest.result,
                       inspected |-> 1 + rest.inspected]
             ELSE [result |-> Err(Anyhow(BadNameText)), inspected |-> 1]

\* Line 175: the future of get_dynamic_fields(object, cursor, None) resolves.
DfReply ==
    /\ hp_pc = "fetch_wait"
    /\ \E r \in {Ok(pg) : pg \in DynamicFieldPages(Len(served) + 1)}
                  \cup {Err(err) : err \in TransportErrors} :
          /\ served' = Append(served, r)
          /\ PageAnswered(r)
    /\ UNCHANGED queries
    /\ UNCHANGED <<ptb_vars, b36_vars, other_vars>>

\* Lines 176-184: handle_pagination has returned; `?` passes its error on,
\* otherwise the names are collected from the iterator.
DfnCollect ==
    /\ hp_pc = "done"
    /\ dfn_result = None
    /\ IF IsErr(Unwrap(hp_result))
       THEN /\ dfn_result' = Some(Err(Unwrap(hp_result).error))
            /\ UNCHANGED <<yielded, inspected>>
       ELSE LET c == CollectNames(Unwrap(hp_result).value)
            IN  /\ dfn_result' = Some(c.result)
                /\ inspected' = c.inspected
                /\ yielded' = SubSeq(Unwrap(hp_result).value, 1, c.inspected)
    /\ UNCHANGED hp_vars
    /\ UNCHANGED <<ptb_vars, b36_vars, ca_vars, sid_vars>>

NextNames ==
    \/ HandlePagination
    \/ HpFetch
    \/ DfReply
    \/ HpReturn
    \/ DfnCollect

(***************************************************************************)
(* id_to_base36                                                            *)
(***************************************************************************)
\* ObjectID is 32 bytes wide (the test's literal has 64 hex digits).
IdLen == 32
\* The identifiers tried: the test's, and those made of IdLen - TailLen equal
\* bytes followed by TailLen bytes of TailBytes.
TailLen == 2
FillBytes == {0, 128, 255}
TailBytes == {0, 1, 36, 255}

\* Line 196
TestId ==
    <<5, 251, 136, 67, 162, 48, 23, 203, 241, 201, 7, 189, 85, 154, 45, 97,
      145, 183, 123, 197, 149, 212, 200, 56, 83, 204, 161, 76, 199, 132, 192, 168>>
\* Line 202
TestString ==
    <<"5", "d", "8", "t", "4", "g", "d", "5", "q", "8", "x", "4", "x", "c", "f",
      "y", "c", "t", "p", "y", "g", "y", "r", "5", "p", "n", "k", "8", "5", "x",
      "5", "4", "o", "7", "n", "d", "e", "q", "2", "j", "4", "p", "g", "9", "l",
      "7", "r", "m", "w">>

FillTail(f, t) == [i \in 1..IdLen |-> IF i <= IdLen - TailLen THEN f
                                      ELSE t[i - (IdLen - TailLen)]]
Identifiers ==
    {TestId} \cup {FillTail(f, t) : f \in FillBytes, t \in [1..TailLen -> TailBytes]}

\* Line 131; BASE36[c] of the source is BASE36[c + 1] here.
BASE36 ==
    <<"0", "1", "2", "3", "4", "5", "6", "7", "8", "9", "a", "b", "c", "d", "e",
      "f", "g", "h", "i", "j", "k", "l", "m", "n", "o", "p", "q", "r", "s", "t",
      "u", "v", "w", "x", "y", "z">>
\* Line 133
base == Len(BASE36)
\* Faulty variant of size: one and a half times the input length.
sizeShort == Len(source) + Len(source) \div 2

\* Line 134
size == Len(source) * 2

B36Init ==
    /\ b36_pc = "for"
    /\ source \in Identifiers
    /\ encoding = [i \in 0..(Len(source) * 2 - 1) |-> 0]
    /\ high = Len(source) * 2 - 1
    /\ it = 0
    /\ carry = 0
    /\ di = 1
    /\ b36_result = None

B36Idle ==
    /\ b36_pc = "idle"
    /\ source = <<>>
    /\ encoding = <<>>
    /\ high = 0
    /\ it = 0
    /\ carry = 0
    /\ di = 1
    /\ b36_result = None

\* Lines 137-139: `for digit in &source` takes the next byte, or ends.
B36For ==
    /\ b36_pc = "for"
    /\ IF di <= Len(source)
       THEN /\ carry' = source[di]
            /\ it' = size - 1
            /\ b36_pc' = "while"
       ELSE /\ b36_pc' = "finish"
            /\ UNCHANGED <<carry, it>>
    /\ UNCHANGED <<source, encoding, high, di, b36_result>>
    /\ UNCHANGED <<ptb_vars, hp_vars, other_vars>>

\* Lines 141-144: the body of the while loop.  encoding[it] panics when `it`
\* is outside the buffer.  `it -= 1` at 0 underflows a usize: a build with
\* overflow checks panics there, a build without wraps to usize::MAX, which
\* is > high, so the next encoding[it] panics: the call panics either way.
WhileBody ==
    IF it \notin DOMAIN encoding
    THEN /\ b36_pc' = "panic"
         /\ UNCHANGED <<encoding, carry, it>>
    ELSE LET c == carry + 256 * encoding[it]
         IN  /\ encoding' = [encoding EXCEPT ![it] = c % base]
             /\ carry' = c \div base
             /\ IF it = 0
                THEN /\ b36_pc' = "panic"
                     /\ UNCHANGED it
                ELSE /\ it' = it - 1
                     /\ UNCHANGED b36_pc

\* Faulty variant of B36While: the loop runs only while a carry is left.
B36WhileCarryOnly ==
    /\ b36_pc = "while"
    /\ IF carry # 0
       THEN /\ WhileBody
            /\ UNCHANGED <<high, di>>
       ELSE /\ high' = it
            /\ di' = di + 1
            /\ b36_pc' = "for"
            /\ UNCHANGED <<encoding, carry, it>>
    /\ UNCHANGED <<source, b36_result>>
    /\ UNCHANGED <<ptb_vars, hp_vars, other_vars>>

\* Lines 140-146: one test of the while condition, then the body or the exit.
B36While ==
    /\ b36_pc = "while"
    /\ IF it > high \/ carry # 0
       THEN /\ WhileBody
            /\ UNCHANGED <<high, di>>
       ELSE /\ high' = it
            /\ di' = di + 1
            /\ b36_pc' = "for"
            /\ UNCHANGED <<encoding, carry, it>>
    /\ UNCHANGED <<source, b36_result>>
    /\ UNCHANGED <<ptb_vars, hp_vars, other_vars>>

RECURSIVE LeadingZeros(_, _)
\* encoding.iter().take_while(|v| **v == 0).count(), counted from index i.
LeadingZeros(enc, i) ==
    IF i \in DOMAIN enc /\ enc[i] = 0 THEN 1 + LeadingZeros(enc, i + 1) ELSE 0

\* Faulty variant of Skip: the first digit that is not zero is skipped too.
SkipOneMore(enc) == LeadingZeros(enc, 0) + 1

\* Faulty variant of Skip: no digit is skipped.
SkipNothing(enc) == 0

\* Line 148
Skip(enc) == LeadingZeros(enc, 0)

\* Lines 149-156: encoding[skip..].iter().map(|&c| BASE36[c]) collected.
B36String(enc, skip) ==
    [i \in 1..(Cardinality(DOMAIN enc) - skip) |-> BASE36[enc[skip + i - 1] + 1]]

\* Lines 148-157
B36Finish ==
    /\ b36_pc = "finish"
    /\ b36_result' = Some(Ok(B36String(encoding, Skip(encoding))))
    /\ b36_pc' = "done"
    /\ UNCHANGED <<source, encoding, high, it, carry, di>>
    /\ UNCHANGED <<ptb_vars, hp_vars, other_vars>>

NextB36 ==
    \/ B36For
    \/ B36While
    \/ B36Finish

(***************************************************************************)
(* call_arg_from_shared_object_id                                          *)
(***************************************************************************)
ObjectIds == {"0x51", "0x52", "0x53", "0x54"}
SharedVersions == {1, 7, 20, 33}

\* sui_types::object::Owner
AddressOwner(a) == [kind |-> "AddressOwner", address |-> a]
ObjectOwner(o) == [kind |-> "ObjectOwner", object |-> o]
Shared(v) == [kind |-> "Shared", initial_shared_version |-> v]
Immutable == [kind |-> "Immutable"]
Owners ==
    {AddressOwner(a) : a \in Addresses} \cup {ObjectOwner(o) : o \in {"0x51", "0x52"}}
        \cup {Shared(v) : v \in SharedVersions} \cup {Immutable}

NonSharedText == "Trying to get the initial version of a non-shared object"

\* CallArg::Object(ObjectArg::SharedObject { id, initial_shared_version, mutable })
SharedObjectArg(id, version, mutable) ==
    [CallArg |-> "Object", ObjectArg |-> "SharedObject",
     id |-> id, initial_shared_version |-> version, mutable |-> mutable]

CaInit ==
    /\ ca_pc = "start"
    /\ ca_id \in ObjectIds
    /\ ca_mutable \in BOOLEAN
    /\ ca_lookups = <<>>
    /\ ca_answer = None
    /\ ca_result = None

CaIdle ==
    /\ ca_pc = "idle"
    /\ ca_id = "0x51"
    /\ ca_mutable = FALSE
    /\ ca_lookups = <<>>
    /\ ca_answer = None
    /\ ca_result = None

SidIdle ==
    /\ sid_pc = "idle"
    /\ sid_address = "0xa11ce"
    /\ sid_created = <<>>
    /\ sid_result = None

UseIdle ==
    /\ yielded = <<>>
    /\ inspected = 0
    /\ dfn_result = None

\* Lines 81-83: get_object_with_options(id, ..with_owner()) is issued.
CaLookup ==
    /\ ca_pc = "start"
    /\ ca_lookups' = Append(ca_lookups, [id |-> ca_id, options |-> "with_owner"])
    /\ ca_pc' = "lookup_wait"
    /\ UNCHANGED <<ca_id, ca_mutable, ca_answer, ca_result>>
    /\ UNCHANGED <<ptb_vars, hp_vars, b36_vars, sid_vars, use_vars>>

\* Faulty variant of OwnerAnswered: every object that has an owner record
\* passes, with version 1 when the record holds none.
OwnerAnsweredAnyOwner(r) ==
    ca_result' = Some(
        IF IsErr(r) THEN Err(r.error)
        ELSE IF IsSome(r.value)
             THEN Ok(SharedObjectArg(ca_id,
                                     IF Unwrap(r.value).kind = "Shared"
                                     THEN Unwrap(r.value).initial_shared_version
                                     ELSE 1,
                                     ca_mutable))
             ELSE Err(Anyhow(NonSharedText)))

\* Lines 79-95: what the function returns for the answer `r` of the lookup,
\* r.value being what .owner() gives.
OwnerAnswered(r) ==
    ca_result' = Some(
        IF IsErr(r) THEN Err(r.error)
        ELSE IF IsSome(r.value) /\ Unwrap(r.value).kind = "Shared"
             THEN Ok(SharedObjectArg(ca_id, Unwrap(r.value).initial_shared_version,
                                     ca_mutable))
             ELSE Err(Anyhow(NonSharedText)))

\* Line 84: the lookup answers; lines 85-95 run to the return.
CaReply ==
    /\ ca_pc = "lookup_wait"
    /\ \E r \in {Ok(o) : o \in Option(Owners)} \cup {Err(e) : e \in TransportErrors} :
          /\ ca_answer' = Some(r)
          /\ OwnerAnswered(r)
    /\ ca_pc' = "done"
    /\ UNCHANGED <<ca_id, ca_mutable, ca_lookups>>
    /\ UNCHANGED <<ptb_vars, hp_vars, b36_vars, sid_vars, use_vars>>

NextCallArg ==
    \/ CaLookup
    \/ CaReply

(***************************************************************************)
(* get_site_id_from_response                                               *)
(***************************************************************************)
MaxCreated == 2

\* OwnedObjectRef { owner, reference: { object_id, .. } }
OwnedObjectRef(owner, id) == [owner |-> owner, reference |-> [object_id |-> id]]

CreatedRefs ==
    {OwnedObjectRef(o, id) :
        o \in {AddressOwner(a) : a \in Addresses} \cup {Shared(1), Immutable},
        id \in {"0x51", "0x52"}}

CreatedLists == UNION {[1..n -> CreatedRefs] : n \in 0..MaxCreated}

\* Line 168: c.owner == address
OwnedBy(c, a) == c.owner.kind = "AddressOwner" /\ c.owner.address = a

\* Lines 166-168: .iter().find(..): the position of the first match, 0 for None
FindCreated(created, a) ==
    IF \E i \in 1..Len(created) : OwnedBy(created[i], a)
    THEN CHOOSE i \in 1..Len(created) :
             /\ OwnedBy(created[i], a)
             /\ \A j \in 1..(i - 1) : ~OwnedBy(created[j], a)
    ELSE 0

SidInit ==
    /\ sid_pc = "start"
    /\ sid_address \in Addresses
    /\ sid_created \in CreatedLists
    /\ sid_result = None

\* Lines 165-171 when find() gives Some(c): Ok(c.reference.object_id)
SidFound ==
    /\ sid_pc = "start"
    /\ FindCreated(sid_created, sid_address) # 0
    /\ sid_result' =
          Some(Ok(sid_created[FindCreated(sid_created, sid_address)].reference.object_id))
    /\ sid_pc' = "done"
    /\ UNCHANGED <<sid_address, sid_created>>
    /\ UNCHANGED <<ptb_vars, hp_vars, b36_vars, ca_vars, use_vars>>

\* Line 169 when find() gives None: .expect(..) panics, nothing is returned
SidExpectPanics ==
    /\ sid_pc = "start"
    /\ FindCreated(sid_created, sid_address) = 0
    /\ sid_pc' = "panic"
    /\ UNCHANGED <<sid_address, sid_created, sid_result>>
    /\ UNCHANGED <<ptb_vars, hp_vars, b36_vars, ca_vars, use_vars>>

NextSiteId ==
    \/ SidFound
    \/ SidExpectPanics

(***************************************************************************)
(* id_to_base36 as a function of the identifier: the same code, run to its *)
(* end in one evaluation.                                                  *)
(***************************************************************************)
RECURSIVE CarryLoop(_, _, _, _)
\* Lines 140-145: the while loop from index i with carry c: <<encoding, it>>
\* at its exit, `it` below 0 when the index left the buffer (a panic).
CarryLoop(enc, i, hi, c) ==
    IF i > hi \/ c # 0
    THEN IF i \notin DOMAIN enc
         THEN <<enc, -1>>
         ELSE LET v == c + 256 * enc[i]
              IN  IF i = 0 THEN <<[enc EXCEPT ![i] = v % base], -1>>
                  ELSE CarryLoop([enc EXCEPT ![i] = v % base], i - 1, hi, v \div base)
    ELSE <<enc, i>>

RECURSIVE Encode(_, _, _, _)
\* Lines 137-147: the for loop from byte k on: <<the encoding at its end,
\* whether the loop panicked>>.
Encode(src, k, enc, hi) ==
    IF k > Len(src) THEN <<enc, FALSE>>
    ELSE LET r == CarryLoop(enc, Len(src) * 2 - 1, hi, src[k])
         IN  IF r[2] < 0 THEN <<r[1], TRUE>> ELSE Encode(src, k + 1, r[1], r[2])

\* Lines 130-158: what id_to_base36 returns for the bytes `src`.
IdToBase36(src) ==
    LET end == Encode(src, 1, [i \in 0..(Len(src) * 2 - 1) |-> 0], Len(src) * 2 - 1)
    IN  IF end[2] THEN [ok |-> FALSE, panic |-> TRUE]
        ELSE Ok(B36String(end[1], Skip(end[1])))

\* The identifiers tried, each with what id_to_base36 returns for it.
Conversions == {<<id, IdToBase36(id)>> : id \in Identifiers}

NextBoth ==
    \/ PtbRequestPrice
    \/ PtbPriceReply
    \/ PtbSignAndSubmit
    \/ PtbSubmitReply
    \/ HandlePagination
    \/ HpFetch
    \/ HpReply
    \/ HpReturn

(***************************************************************************)
(* Specifications                                                          *)
(***************************************************************************)
InitPtb == PtbInit /\ HpIdle /\ B36Idle /\ CaIdle /\ SidIdle /\ UseIdle
InitPage == PtbIdle /\ HpInit /\ B36Idle /\ CaIdle /\ SidIdle /\ UseIdle
InitB36 == PtbIdle /\ HpIdle /\ B36Init /\ CaIdle /\ SidIdle /\ UseIdle
InitCallArg == PtbIdle /\ HpIdle /\ B36Idle /\ CaInit /\ SidIdle /\ UseIdle

\* One invocation of sign_and_send_ptb.
SpecPtb == InitPtb /\ [][NextPtb]_vars
\* One invocation of handle_pagination.
SpecPage == InitPage /\ [][NextPage]_vars
\* One invocation of handle_pagination that is always resumed: the executor
\* polls the future again whenever the awaited answer is there.
FairSpecPage == SpecPage /\ WF_vars(NextPage)
\* One invocation of handle_pagination and a caller that consumes the
\* iterator it returns.
SpecPageConsumed == InitPage /\ [][NextPageConsumed]_vars
\* One invocation of get_dynamic_field_names.
SpecNames == InitPage /\ [][NextNames]_vars
InitBoth ==
    /\ PtbInit /\ address = "0xa11ce"
    /\ HpInit /\ B36Idle /\ CaIdle /\ SidIdle /\ UseIdle
\* One invocation of sign_and_send_ptb and one of handle_pagination, their
\* steps interleaved in every possible way.
SpecBoth == InitBoth /\ [][NextBoth]_vars
InitSiteId == PtbIdle /\ HpIdle /\ B36Idle /\ CaIdle /\ SidInit /\ UseIdle
\* One invocation of get_site_id_from_response.
SpecSiteId == InitSiteId /\ [][NextSiteId]_vars
\* One invocation of call_arg_from_shared_object_id.
SpecCallArg == InitCallArg /\ [][NextCallArg]_vars
\* One invocation of id_to_base36.
SpecB36 == InitB36 /\ [][NextB36]_vars
\* One invocation of id_to_base36 that keeps running: the function is
\* synchronous code, which takes its next step as long as it has one.
FairSpecB36 == SpecB36 /\ WF_vars(NextB36)

(***************************************************************************)
(* Properties of sign_and_send_ptb (checked under SpecPtb)                 *)
(***************************************************************************)
\* The call has returned after the submission answered with a response.
PtbAnsweredWith(resp) ==
    /\ ptb_pc = "done"
    /\ returned = Some(Ok(resp))

\* C1: whenever the submission answers with a response whose
\* confirmed_local_execution is not Some(true) (Some(false) or None), the
\* call returns the "not confirmed" error, whatever the effects are; it is
\* neither Ok nor the execution-failure error.
C1_UnconfirmedIsNotConfirmedError ==
    \A resp \in Responses :
        (PtbAnsweredWith(resp) /\ resp.confirmed_local_execution # Some(TRUE))
            => /\ ptb_result = Some(Err(Anyhow(NotConfirmedText)))
               /\ ~IsOk(Unwrap(ptb_result))
               /\ \A m \in FailureMessages :
                      Unwrap(ptb_result).error # Anyhow(ExecutionErrorPrefix \o m)

\* An absent flag together with effects that report success.
C1_Witness ==
    \E resp \in Responses :
        /\ PtbAnsweredWith(resp)
        /\ resp.confirmed_local_execution = None
        /\ resp.effects = Some([status |-> Success])
        /\ ptb_result = Some(Err(Anyhow(NotConfirmedText)))

\* C2: whenever the submission answers with a response that is confirmed and
\* whose effects report success, the call returns Ok carrying exactly that
\* response.
C2_ConfirmedSuccessIsOk ==
    \A resp \in Responses :
        (/\ PtbAnsweredWith(resp)
         /\ resp.confirmed_local_execution = Some(TRUE)
         /\ resp.effects = Some([status |-> Success]))
            => ptb_result = Some(Ok(resp))

C2_Witness ==
    \E resp \in Responses :
        /\ PtbAnsweredWith(resp)
        /\ resp.confirmed_local_execution = Some(TRUE)
        /\ resp.effects = Some([status |-> Success])
        /\ IsOk(Unwrap(ptb_result))
        /\ Unwrap(ptb_result).value.digest = resp.digest

\* C3: whenever the submission answers with a response that is confirmed and
\* whose effects report failure with message m, the call returns the
\* execution-failure error, whose text is the fixed prefix followed by m.
C3_FailureCarriesMessage ==
    \A resp \in Responses : \A m \in FailureMessages :
        (/\ PtbAnsweredWith(resp)
         /\ resp.confirmed_local_execution = Some(TRUE)
         /\ resp.effects = Some([status |-> Failure(m)]))
            => ptb_result = Some(Err(Anyhow(ExecutionErrorPrefix \o m)))

C3_Witness ==
    \E resp \in Responses :
        /\ PtbAnsweredWith(resp)
        /\ resp.confirmed_local_execution = Some(TRUE)
        /\ resp.effects = Some([status |-> Failure("insufficient funds")])
        /\ ptb_result =
              Some(Err(Anyhow("Error in transaction execution: insufficient funds")))

\* C4: the price is queried at most once and the envelope is submitted at
\* most once; it is submitted exactly once when the price query and the
\* signing both succeeded, and not at all otherwise; once the call has
\* returned (after a transport error, an unconfirmed response, a reported
\* failure or a success) each remote call was made at most once.
C4_SubmittedOnce ==
    /\ priceCalls <= 1
    /\ Len(signLog) <= 1
    /\ Len(submitted) <= 1
    /\ (Len(submitted) = 1) <=>
          (IsSome(gas_price) /\ signLog # <<>> /\ IsOk(signLog[1]))
    /\ ptb_pc = "done" => priceCalls = 1

\* The submission failed in transport and the call has returned.
C4_Witness ==
    /\ ptb_pc = "done"
    /\ IsSome(returned)
    /\ IsErr(Unwrap(returned))
    /\ ptb_result = Some(Err(Unwrap(returned).error))
    /\ Len(submitted) = 1
    /\ priceCalls = 1

(***************************************************************************)
(* Properties of handle_pagination (checked under SpecPage, FairSpecPage)  *)
(***************************************************************************)
\* The closure's k-th answer ends the session: it is an error, or a page
\* that declares no further pages.
Terminating(k) == IsErr(served[k]) \/ ~served[k].value.has_next_page

RECURSIVE ItemsUpTo(_)
\* The number of items on the first k pages served.
ItemsUpTo(k) == IF k = 0 THEN 0 ELSE Len(served[k].value.data) + ItemsUpTo(k - 1)

\* The call has returned and every fetch succeeded.
HpDoneAllFetched ==
    /\ hp_pc = "done"
    /\ \A k \in DOMAIN served : IsOk(served[k])

\* C5: when every page p_1..p_N was fetched successfully, the returned
\* sequence has length sum(k_i) and its items are those of p_1, then those of
\* p_2, ..., then those of p_N, each page in its own order (the i-th item of
\* page k sits at position k_1 + ... + k_(k-1) + i).
C5_ConcatenationInFetchOrder ==
    HpDoneAllFetched =>
        /\ IsSome(hp_result)
        /\ IsOk(Unwrap(hp_result))
        /\ LET out == Unwrap(hp_result).value
           IN  /\ Len(out) = ItemsUpTo(Len(served))
               /\ \A k \in DOMAIN served :
                      \A i \in DOMAIN served[k].value.data :
                          out[ItemsUpTo(k - 1) + i] = served[k].value.data[i]

\* Three pages: a full one, an empty one, and a last one with an item.
C5_Witness ==
    /\ HpDoneAllFetched
    /\ Len(served) = 3
    /\ Len(served[1].value.data) = 2
    /\ Len(served[2].value.data) = 0
    /\ Len(served[3].value.data) = 1
    /\ Unwrap(hp_result).value = <<<<1, 1>>, <<1, 2>>, <<3, 1>>>>

\* C6: if the fetch of page j fails, the call has returned exactly that
\* error (so none of the items of pages 1..j-1), the closure was invoked j
\* times and answered j times: the failing page was not requested again and
\* no later page was requested.
C6_FetchErrorAborts ==
    \A j \in DOMAIN served :
        IsErr(served[j]) =>
            /\ hp_pc = "done"
            /\ hp_result = Some(Err(served[j].error))
            /\ Len(queries) = j
            /\ Len(served) = j

\* The second fetch fails after a first page with two items.
C6_Witness ==
    /\ Len(served) = 2
    /\ IsOk(served[1])
    /\ Len(served[1].value.data) = 2
    /\ IsErr(served[2])
    /\ hp_pc = "done"
    /\ hp_result = Some(Err(served[2].error))

\* The closure was invoked as the loop requires: once more than it has
\* answered while an answer is awaited, every answer but the last one is a
\* page that declares more data, and after the return the last answer is the
\* first one that ends the session, so the closure was invoked exactly as
\* many times as the index of that answer, and at least once.
HpFetchCount ==
    /\ Len(queries) = Len(served) + (IF hp_pc = "fetch_wait" THEN 1 ELSE 0)
    /\ \A k \in 1..(Len(served) - 1) : ~Terminating(k)
    /\ hp_pc = "loop" /\ served # <<>> /\ ~Terminating(Len(served)) => ENABLED HpFetch
    /\ hp_pc = "done" =>
          /\ Len(queries) >= 1
          /\ Terminating(Len(queries))
          /\ Len(queries) = Len(served)

\* C7: when some answer of the remote service ends the session (here the
\* one with index MaxPages at the latest), handle_pagination eventually
\* returns, and it has invoked the closure exactly as many times as the
\* index of the first such answer.
C7_TerminatesAfterFirstLastPage ==
    /\ <>(hp_pc = "done")
    /\ []HpFetchCount

\* The call returned after a third page, the first to declare no further
\* pages.
C7_Witness ==
    /\ hp_pc = "done"
    /\ Len(queries) = 3
    /\ IsOk(served[3])
    /\ ~served[3].value.has_next_page
    /\ served[1].value.has_next_page
    /\ served[2].value.has_next_page

(***************************************************************************)
(* Properties of id_to_base36 (checked under SpecB36)                      *)
(***************************************************************************)
AllZero(bytes) == \A i \in DOMAIN bytes : bytes[i] = 0

\* The call has returned a string.
B36Returned ==
    /\ b36_pc = "done"
    /\ IsSome(b36_result)
    /\ IsOk(Unwrap(b36_result))

\* C8: for the all-zero identifier the string returned is "0".
C8_ZeroIsSingleZero ==
    (b36_pc = "done" /\ AllZero(source)) => b36_result = Some(Ok(<<"0">>))

\* C9: for every identifier that is not all-zero, the string returned is not
\* empty and does not start with "0".
C9_NoLeadingZeroSymbol ==
    (b36_pc = "done" /\ ~AllZero(source)) =>
        /\ B36Returned
        /\ Unwrap(b36_result).value # <<>>
        /\ Unwrap(b36_result).value[1] # "0"

\* An identifier whose most significant bytes are zero.
C9_Witness ==
    /\ B36Returned
    /\ source[1] = 0
    /\ source[IdLen - 1] = 0
    /\ source[IdLen] = 36
    /\ Unwrap(b36_result).value = <<"1", "0">>

\* The digit a symbol of the alphabet stands for.
DigitOf(ch) == (CHOOSE d \in 1..Len(BASE36) : BASE36[d] = ch) - 1

RECURSIVE MulAdd(_, _, _, _)
\* bytes * m + a for a big-endian base-256 number, from byte i down to the
\* first: <<the bytes, the carry out of the most significant byte>>.
MulAdd(bytes, i, m, a) ==
    IF i = 0 THEN <<bytes, a>>
    ELSE LET v == bytes[i] * m + a
         IN  MulAdd([bytes EXCEPT ![i] = v % 256], i - 1, m, v \div 256)

RECURSIVE Base36Value(_, _, _)
\* The number the base-36 numeral str[i..] denotes after the prefix denoted
\* acc (most significant symbol first), as big-endian bytes of the width of
\* acc: <<the bytes, whether the number fits the width>>.
Base36Value(str, i, acc) ==
    IF i > Len(str) THEN <<acc, TRUE>>
    ELSE LET next == MulAdd(acc, Len(acc), 36, DigitOf(str[i]))
         IN  IF next[2] # 0 THEN <<acc, FALSE>>
             ELSE Base36Value(str, i + 1, next[1])

RECURSIVE DivMod36(_, _, _)
\* Long division of a big-endian base-256 number by 36, from byte i on with
\* remainder r carried in: <<the quotient's bytes, the remainder>>.
DivMod36(bytes, i, r) ==
    IF i > Len(bytes) THEN <<bytes, r>>
    ELSE LET v == r * 256 + bytes[i]
         IN  DivMod36([bytes EXCEPT ![i] = v \div 36], i + 1, v % 36)

RECURSIVE RepeatedDivision(_)
\* The base-36 numeral of a number by repeated division by 36, the last
\* remainder first.
RepeatedDivision(bytes) ==
    IF AllZero(bytes) THEN <<>>
    ELSE LET qr == DivMod36(bytes, 1, 0)
         IN  Append(RepeatedDivision(qr[1]), BASE36[qr[2] + 1])

\* C10: the string returned, read as a base-36 numeral over 0-9a-z, most
\* significant symbol first, denotes the number the identifier's bytes
\* denote big-endian in base 256; it is the numeral repeated division by 36
\* gives; for the identifier of the test it is the string the test expects.
C10_DenotesTheIdentifier ==
    b36_pc = "done" =>
        /\ B36Returned
        /\ LET str == Unwrap(b36_result).value
           IN  /\ Base36Value(str, 1, [i \in 1..Len(source) |-> 0]) = <<source, TRUE>>
               /\ str = RepeatedDivision(source)
               /\ source = TestId => str = TestString

\* The test's identifier has been converted to the test's string.
C10_Witness ==
    /\ B36Returned
    /\ source = TestId
    /\ Unwrap(b36_result).value = TestString

(***************************************************************************)
(* Further properties of sign_and_send_ptb (checked under SpecPtb)         *)
(***************************************************************************)
\* C14: the steps are taken in the order price query, signing, submission,
\* outcome check: there is a signing only after the price query answered
\* with a price, which is the price of the signed data; there is a
\* submission only after the signing gave a signature, which is the one
\* submitted; there is an answer to check only after a submission.  If the
\* price query failed there is no signing and no submission and its error is
\* the result; if the signing failed there is no submission and its error is
\* the result.
C14_StepsInOrder ==
    /\ priceLog # <<>> => priceCalls = 1
    /\ signLog # <<>> =>
          /\ priceLog # <<>>
          /\ IsOk(priceLog[1])
          /\ gas_price = Some(priceLog[1].value)
    /\ submitted # <<>> =>
          /\ signLog # <<>>
          /\ IsOk(signLog[1])
          /\ submitted[1].tx_signatures = <<signLog[1].value>>
          /\ submitted[1].data = signLog[1].value.over
          /\ submitted[1].data.gas_price = priceLog[1].value
    /\ IsSome(returned) => submitted # <<>>
    /\ (priceLog # <<>> /\ IsErr(priceLog[1])) =>
          /\ signLog = <<>>
          /\ submitted = <<>>
          /\ ptb_pc = "done"
          /\ ptb_result = Some(Err(priceLog[1].error))
    /\ (signLog # <<>> /\ IsErr(signLog[1])) =>
          /\ submitted = <<>>
          /\ ptb_pc = "done"
          /\ ptb_result = Some(Err(signLog[1].error))

\* The price query failed and the call has returned its error.
C14_Witness ==
    /\ ptb_pc = "done"
    /\ priceLog = <<Err(SdkError("RPC call failed"))>>
    /\ signLog = <<>>
    /\ submitted = <<>>
    /\ ptb_result = Some(Err(SdkError("RPC call failed")))

\* C20: the call returns Ok only if the price query answered with a price,
\* the signing gave a signature, the submission answered with a response,
\* the response is confirmed, holds effects, and the effects report success;
\* a confirmed response without effects gives the "no effects" error, which
\* is neither the "not confirmed" error nor an execution-failure error.
C20_OkOnlyIfAllHeld ==
    /\ (IsSome(ptb_result) /\ IsOk(Unwrap(ptb_result))) =>
          /\ priceLog # <<>> /\ IsOk(priceLog[1])
          /\ signLog # <<>> /\ IsOk(signLog[1])
          /\ Len(submitted) = 1
          /\ IsSome(returned) /\ IsOk(Unwrap(returned))
          /\ LET resp == Unwrap(returned).value
             IN  /\ resp.confirmed_local_execution = Some(TRUE)
                 /\ IsSome(resp.effects)
                 /\ Unwrap(resp.effects).status = Success
    /\ \A resp \in Responses :
          (/\ PtbAnsweredWith(resp)
           /\ resp.confirmed_local_execution = Some(TRUE)
           /\ resp.effects = None)
              => /\ ptb_result = Some(Err(Anyhow(NoEffectsText)))
                 /\ Unwrap(ptb_result).error # Anyhow(NotConfirmedText)
                 /\ \A m \in FailureMessages :
                        Unwrap(ptb_result).error # Anyhow(ExecutionErrorPrefix \o m)

\* A confirmed response without effects.
C20_Witness ==
    \E resp \in Responses :
        /\ PtbAnsweredWith(resp)
        /\ resp.confirmed_local_execution = Some(TRUE)
        /\ resp.effects = None
        /\ ptb_result = Some(Err(Anyhow("No transaction effects in response")))

(***************************************************************************)
(* Further properties of handle_pagination                                 *)
(***************************************************************************)
\* C15: the first invocation of the closure gets no cursor, and the
\* (i+1)-th invocation gets exactly the next_cursor of the i-th page: None
\* when that page held none, also when it declared more data.
C15_CursorThreaded ==
    /\ queries # <<>> => queries[1] = None
    /\ \A i \in 1..(Len(queries) - 1) :
          /\ IsOk(served[i])
          /\ queries[i + 1] = served[i].value.next_cursor

\* Three invocations: the first page gave cursor c1, the second declared
\* more data and gave no cursor.
C15_Witness ==
    /\ Len(queries) = 3
    /\ served[1].value.next_cursor = Some("c1")
    /\ served[2].value.has_next_page
    /\ served[2].value.next_cursor = None
    /\ queries = <<None, Some("c1"), None>>

(***************************************************************************)
(* Further properties of id_to_base36 (checked under SpecB36)              *)
(***************************************************************************)
\* For a 32-byte identifier the buffer holds 64 digits; the index `it`
\* stays within 0..63 while the loop runs (its decrement never passes zero)
\* and so does `high`; every digit in the buffer is in 0..35; the carry is at
\* most 255 between iterations and at most 256*35+255 within one; the call
\* has not panicked, and once it is over it has returned a string.
B36InRange ==
    /\ Len(source) = 32
    /\ DOMAIN encoding = 0..63
    /\ b36_pc \in {"for", "while", "finish", "done"}
    /\ high \in 0..63
    /\ b36_pc = "while" => it \in 0..63
    /\ \A i \in DOMAIN encoding : encoding[i] \in 0..35
    /\ carry \in 0..255
    /\ b36_pc = "while" => carry + 256 * encoding[it] <= 256 * 35 + 255
    /\ b36_pc = "done" => B36Returned

\* C18: for every 32-byte identifier the index, the digits and the carry
\* stay in range throughout the conversion, which never panics, and the
\* conversion always comes to its return.
C18_IndexDigitsCarryInRange ==
    /\ []B36InRange
    /\ <>(b36_pc = "done")

\* The largest identifier: 50 digits, the most any identifier needs.
C18_Witness ==
    /\ B36Returned
    /\ \A i \in DOMAIN source : source[i] = 255
    /\ high = 13
    /\ Len(Unwrap(b36_result).value) = 50

\* C11: the string returned for an identifier is the one the function
\* always returns for it, and no identifier that differs from it in some
\* byte is converted to that string.
C11_Injective ==
    b36_pc = "done" =>
        \A conv \in Conversions :
            /\ conv[1] = source => b36_result = Some(conv[2])
            /\ conv[1] # source => b36_result # Some(conv[2])

\* Two identifiers that differ only in the last byte, one of them converted.
C11_Witness ==
    /\ B36Returned
    /\ source[IdLen] = 1
    /\ \E conv \in Conversions :
          /\ conv[1] # source
          /\ \A i \in 1..(IdLen - 1) : conv[1][i] = source[i]
          /\ Some(conv[2]) # b36_result

(***************************************************************************)
(* Properties of call_arg_from_shared_object_id (checked under SpecCallArg)*)
(***************************************************************************)
\* C12: once the lookup has answered with an owner record (or none), the
\* call returns a shared-object argument, holding the requested id, the
\* record's initial shared version and the caller's mutable flag, if and
\* only if the record is Shared; for an address owner, an object owner, an
\* immutable object or no record it returns the "non-shared" error.  The
\* lookup is the only request the call makes: nothing is signed and nothing
\* is submitted.
C12_SharedOrOwnershipError ==
    /\ Len(ca_lookups) <= 1
    /\ priceCalls = 0 /\ signLog = <<>> /\ submitted = <<>>
    /\ (ca_pc = "done" /\ IsOk(Unwrap(ca_answer))) =>
          LET owner == Unwrap(ca_answer).value
              shared == IsSome(owner) /\ Unwrap(owner).kind = "Shared"
          IN  /\ Len(ca_lookups) = 1
              /\ IsOk(Unwrap(ca_result)) <=> shared
              /\ shared =>
                    ca_result = Some(Ok(SharedObjectArg(
                        ca_id, Unwrap(owner).initial_shared_version, ca_mutable)))
              /\ ~shared => ca_result = Some(Err(Anyhow(NonSharedText)))

\* An object owned by an address.
C12_Witness ==
    /\ ca_pc = "done"
    /\ ca_answer = Some(Ok(Some(AddressOwner("0xb0b"))))
    /\ ca_result =
          Some(Err(Anyhow("Trying to get the initial version of a non-shared object")))
    /\ Len(ca_lookups) = 1
    /\ submitted = <<>>

(***************************************************************************)
(* Properties of get_site_id_from_response (checked under SpecSiteId)      *)
(***************************************************************************)
SidEnded == sid_pc \in {"done", "panic"}

\* C13: when no created resource of the effects is owned by the caller's
\* address, the call ends by returning an error value (and in no other way).
C13_MissingCreatedIsReturnedError ==
    (SidEnded /\ FindCreated(sid_created, sid_address) = 0) =>
        /\ sid_pc = "done"
        /\ IsSome(sid_result)
        /\ IsErr(Unwrap(sid_result))

(***************************************************************************)
(* Properties of the iterator handle_pagination returns                    *)
(* (checked under SpecPageConsumed)                                        *)
(***************************************************************************)
\* C16: every invocation of the closure precedes the return of the result
\* (a step that invokes it starts and ends with no result and nothing
\* consumed, and a result is only present when every invocation has been
\* answered), and taking items from the returned iterator, however many,
\* invokes the closure no further: the items come, in order, from what was
\* returned.
C16_AllFetchedBeforeReturn ==
    /\ [](IsSome(hp_result) => (hp_pc = "done" /\ Len(served) = Len(queries)))
    /\ [](yielded # <<>> =>
            /\ IsOk(Unwrap(hp_result))
            /\ yielded = SubSeq(Unwrap(hp_result).value, 1, Len(yielded)))
    /\ [][queries' # queries =>
            (hp_result = None /\ hp_result' = None /\ yielded = <<>>)]_vars
    /\ [][yielded' # yielded =>
            (queries' = queries /\ served' = served /\ hp_result' = hp_result)]_vars

\* Two pages were fetched, three items returned, and the caller has taken
\* the first two of them.
C16_Witness ==
    /\ hp_pc = "done"
    /\ Len(queries) = 2
    /\ IsOk(Unwrap(hp_result))
    /\ Len(Unwrap(hp_result).value) = 3
    /\ yielded = <<<<1, 1>>, <<1, 2>>>>

(***************************************************************************)
(* Properties of get_dynamic_field_names (checked under SpecNames)         *)
(***************************************************************************)
RECURSIVE FieldsServed(_)
\* The fields of the first k pages served, in the order they were served.
FieldsServed(k) ==
    IF k = 0 THEN <<>> ELSE FieldsServed(k - 1) \o served[k].value.data

IsText(field) == field.name.value.json = "String"

\* C19: when get_dynamic_field_names has returned: if a page fetch failed,
\* the result is that fetch's error and no name was inspected; otherwise, if
\* every field name of every page is text, the result is the list of all
\* names, page after page in the order served; otherwise the result is the
\* malformed-field-name error (an error carries no list).
C19_NamesOrFirstFailure ==
    IsSome(dfn_result) =>
        /\ hp_pc = "done"
        /\ Len(served) = Len(queries)
        /\ IF \E k \in DOMAIN served : IsErr(served[k])
           THEN /\ dfn_result = Some(Err(served[Len(served)].error))
                /\ inspected = 0
           ELSE LET fields == FieldsServed(Len(served))
                IN  IF \A i \in DOMAIN fields : IsText(fields[i])
                    THEN dfn_result =
                             Some(Ok([i \in 1..Len(fields) |-> fields[i].name.value.str]))
                    ELSE dfn_result =
                             Some(Err(Anyhow("Could not read the name of the dynamic field")))

\* Two pages of two fields each; only the third of the four names is not text.
C19_Witness ==
    /\ IsSome(dfn_result)
    /\ Len(served) = 2
    /\ IsOk(served[1]) /\ IsOk(served[2])
    /\ Len(FieldsServed(2)) = 4
    /\ {i \in 1..4 : ~IsText(FieldsServed(2)[i])} = {3}
    /\ dfn_result = Some(Err(Anyhow(BadNameText)))
    /\ inspected = 3

\* Every name is text: two pages, three names.
C19_WitnessAllText ==
    /\ dfn_result = Some(Ok(<<"field1.1", "field1.2", "field2.1">>))
    /\ Len(served) = 2

(***************************************************************************)
(* Properties of interleaved invocations (checked under SpecBoth)          *)
(***************************************************************************)
\* Remote requests of the sign_and_send_ptb invocation: issued, and answered
\* (with a response or an error).
PtbIssued == priceCalls + Len(submitted)
PtbReceived == Len(priceLog) + (IF IsSome(returned) THEN 1 ELSE 0)
PtbOutstanding == PtbIssued - PtbReceived
\* Remote requests of the handle_pagination invocation.
HpOutstanding == Len(queries) - Len(served)

\* C17: while an invocation of sign_and_send_ptb and one of handle_pagination
\* run interleaved, each has at most one remote request outstanding at any
\* moment; a step that issues a request of an invocation issues one, and
\* starts where every earlier request of that invocation has been answered;
\* and every step changes the data of one invocation only.
C17_OneOutstandingRequest ==
    /\ [](PtbOutstanding \in {0, 1} /\ HpOutstanding \in {0, 1})
    /\ [][PtbIssued' # PtbIssued =>
            (PtbOutstanding = 0 /\ PtbIssued' = PtbIssued + 1)]_vars
    /\ [][queries' # queries =>
            (HpOutstanding = 0 /\ Len(queries') = Len(queries) + 1)]_vars
    /\ [][ptb_vars' = ptb_vars \/ hp_vars' = hp_vars]_vars

\* Both invocations await an answer at the same moment: the submission and
\* the second page.
C17_Witness ==
    /\ ptb_pc = "submit_wait" /\ PtbOutstanding = 1 /\ PtbIssued = 2
    /\ hp_pc = "fetch_wait" /\ HpOutstanding = 1 /\ Len(queries) = 2

=============================================================================
